---- MODULE Spec2Model ----
(***************************************************************************)
(* Model of src/Instacart_association.ipynb: the helper functions freq,    *)
(* order_count, get_item_pairs, merge_item_stats and the association_rules *)
(* function, run on a Series `orders` (index order_id, value item_id).     *)
(*                                                                         *)
(* A Series is a sequence of rows <<order_id, item_id>> (row[1] is x[0] of *)
(* the numpy row, row[2] is x[1]).  A float that the code computes as      *)
(* count / count * 100 is kept as an exact fraction [num, den]; no         *)
(* division is carried out when the frame it is computed on is empty,      *)
(* as in pandas.  Order ids and item ids are used by the code only through *)
(* equality and hashing (groupby, Counter, set, isin, merge), so a stream  *)
(* is loaded in the renaming in which ids are numbered in order of first   *)
(* occurrence.                                                             *)
(***************************************************************************)
EXTENDS Integers, Sequences, FiniteSets, TLC

VARIABLES
    orders,            \* the Series the notebook holds and passes to the functions
    min_support,       \* second argument of association_rules (0 until the
                       \* call binds it)
    pc,                \* next statement block to execute
    yielded,           \* pairs yielded by the last get_item_pairs generator, each
                       \* with the generator's local order_id at the yield
    pair_counts,       \* Counter(get_item_pairs(orders)) of the direct call
    order_item,        \* local order_item of association_rules (rebound by filters)
    item_stats,        \* local item_stats frame: item -> [freq, support]
    qualifying_items,  \* local qualifying_items index
    order_size,        \* local order_size Series: order_id -> row count
    qualifying_orders, \* local qualifying_orders index
    counted_pairs,     \* item_pairs frame as it is before line 604 filters it
    item_pairs,        \* local item_pairs frame
    rules,             \* the returned frame: its records in order, those of
                       \* equal lift grouped (see sort_values_lift)
    error,             \* exception raised by association_rules, "" if none
    gen,               \* frame of the get_item_pairs generator that freq consumes
    counter,           \* the Counter freq is filling from the generator
    call               \* a call of get_item_pairs by itself: the definition
                       \* called, its argument, the pairs it produced

vars == <<orders, min_support, pc, yielded, pair_counts, order_item, item_stats,
          qualifying_items, order_size, qualifying_orders, counted_pairs,
          item_pairs, rules, error, gen, counter, call>>

\* Bounds of the data loaded: order ids, item ids, rows.
NumOrders == 3
NumItems == 3
MaxLen == 5

\* Bound of the rows of the streams that keep the input contract.
MaxGroupedLen == 6

\* min_support values tried (percentages).
MinSupports == {0, 50, 100}

----------------------------------------------------------------------------
\* Generic helpers.

Range(s) == {s[k] : k \in DOMAIN s}

Max(S) == IF S = {} THEN 0 ELSE CHOOSE x \in S : \A y \in S : y <= x

Min2(a, b) == IF a <= b THEN a ELSE b

RECURSIVE Flatten(_)
Flatten(ss) == IF ss = <<>> THEN <<>> ELSE Head(ss) \o Flatten(Tail(ss))

RECURSIVE GCD(_, _)
GCD(a, b) == IF b = 0 THEN a ELSE GCD(b, a % b)

\* Exact fractions standing for the floats of the code, in lowest terms.
Frac(n, d) ==
    LET g == GCD(n, d)
    IN IF g = 0 THEN [num |-> n, den |-> d] ELSE [num |-> n \div g, den |-> d \div g]

\* x / y for two fractions
FracDiv(x, y) == Frac(x.num * y.den, x.den * y.num)

\* x * y for two fractions
FracMul(x, y) == Frac(x.num * y.num, x.den * y.den)

\* x >= m for a fraction x (den > 0) and an integer m
FracGeqInt(x, m) == x.num >= m * x.den

\* x = y, x >= y for fractions with positive denominators
FracEq(x, y) == x.num * y.den = y.num * x.den

FracGeq(x, y) == x.num * y.den >= y.num * x.den

----------------------------------------------------------------------------
\* The ids of a stream.

OrderIds(s) == {s[k][1] : k \in DOMAIN s}

ItemIds(s) == {s[k][2] : k \in DOMAIN s}

----------------------------------------------------------------------------
\* Helper functions of the notebook.

\* freq(iterable): value_counts() of a Series, or Counter of any iterable;
\* both give the mapping key -> number of occurrences.
freq(keys) ==
    [k \in Range(keys) |-> Cardinality({n \in DOMAIN keys : keys[n] = k})]

\* The values and the index of a Series.
values(s) == [k \in DOMAIN s |-> s[k][2]]

index(s) == [k \in DOMAIN s |-> s[k][1]]

\* order_count(order_item): len(set(order_item.index))
order_count(s) == Cardinality(Range(index(s)))

\* itertools.groupby(order_item, lambda x: x[0]): the maximal runs of
\* consecutive rows with the same order_id, in stream order.
RECURSIVE groupby(_)
groupby(s) ==
    IF s = <<>> THEN <<>>
    ELSE LET key == s[1][1]
             n == CHOOSE m \in 1..Len(s) :
                      /\ \A j \in 1..m : s[j][1] = key
                      /\ (m = Len(s) \/ s[m + 1][1] # key)
         IN <<[order_id |-> key, order_object |-> SubSeq(s, 1, n)]>>
                \o groupby(SubSeq(s, n + 1, Len(s)))

\* Variant of combinations: only neighbouring items are paired.
pairwise(item_list) ==
    [j \in 1..(Len(item_list) - 1) |-> <<item_list[j], item_list[j + 1]>>]

\* itertools.combinations(item_list, 2): the tuples (item_list[i], item_list[j])
\* with i < j, by position, in lexicographic order of (i, j).
RECURSIVE combinations(_)
combinations(item_list) ==
    IF Len(item_list) < 2 THEN <<>>
    ELSE [j \in 1..(Len(item_list) - 1) |-> <<item_list[1], item_list[j + 1]>>]
            \o combinations(Tail(item_list))

\* get_item_pairs(order_item): the sequence of yields of the generator, each
\* item_pair with the order_id of the group being processed.
get_item_pairs(s) ==
    LET groups == groupby(s)
        yields(g) ==
            LET item_list == values(g.order_object)
                pairs == combinations(item_list)
            IN [k \in DOMAIN pairs |->
                    [order_id |-> g.order_id, item_pair |-> pairs[k]]]
    IN Flatten([g \in DOMAIN groups |-> yields(groups[g])])

\* get_item_pairs as the sample cell defines it (lines 64-72): its loop is
\* over groupby(orders, ...), the global orders, not over its parameter.
sample_get_item_pairs(order_item_arg) == get_item_pairs(orders)

\* The item_pair values a consumer of the generator receives.
item_pair_seq(ys) == [k \in DOMAIN ys |-> ys[k].item_pair]

\* Variant of item_stats_frame: freq counts the orders that list the item.
item_stats_by_orders(s) ==
    LET n == order_count(s)
    IN [i \in ItemIds(s) |->
            LET f == Cardinality({o \in OrderIds(s) :
                        \E k \in DOMAIN s : s[k] = <<o, i>>})
            IN [freq |-> f, support |-> Frac(f * 100, n)]]

\* Lines 566-567 and 588-589: freq(order_item).to_frame("freq") with the column
\* support = freq / order_count(order_item) * 100.
item_stats_frame(s) ==
    LET f == freq(values(s))
        n == order_count(s)
    IN [i \in DOMAIN f |-> [freq |-> f[i], support |-> Frac(f[i] * 100, n)]]

\* Variant of qualifying_items_of: strict comparison.
qualifying_items_strict(stats, ms) ==
    {i \in DOMAIN stats : stats[i].support.num > ms * stats[i].support.den}

\* Line 571: item_stats[item_stats['support'] >= min_support].index
qualifying_items_of(stats, ms) ==
    {i \in DOMAIN stats : FracGeqInt(stats[i].support, ms)}

\* Variant of select_items: the rows kept are collected item by item.
RECURSIVE select_items_by_item(_, _)
select_items_by_item(s, items) ==
    IF items = {} THEN <<>>
    ELSE LET i == CHOOSE x \in items : \A y \in items : x <= y
         IN SelectSeq(s, LAMBDA row : row[2] = i)
                \o select_items_by_item(s, items \ {i})

\* Variant of select_items: no row is dropped.
select_items_all(s, items) == s

\* Line 572: order_item[order_item.isin(qualifying_items)]
select_items(s, items) == SelectSeq(s, LAMBDA row : row[2] \in items)

\* Variant of qualifying_orders_of: orders of one row are kept.
qualifying_orders_nonempty(sizes) == {o \in DOMAIN sizes : sizes[o] >= 1}

\* Line 580: order_size[order_size >= 2].index
qualifying_orders_of(sizes) == {o \in DOMAIN sizes : sizes[o] >= 2}

\* Variant of select_orders: no row is dropped.
select_orders_all(s, ids) == s

\* Line 581: order_item[order_item.index.isin(qualifying_orders)]
select_orders(s, ids) == SelectSeq(s, LAMBDA row : row[1] \in ids)

\* Lines 597-598: freq(item_pair_gen).to_frame("freqAB") with the column
\* supportAB = freqAB / len(qualifying_orders) * 100.  A Series built from a
\* Counter with tuple keys has a two-level MultiIndex; built from an empty
\* Counter it has a plain, one-level index.
item_pairs_frame(ys, n_orders) ==
    LET f == freq(item_pair_seq(ys))
    IN [index_levels |-> IF DOMAIN f = {} THEN 1 ELSE 2,
        rows |-> [k \in DOMAIN f |->
                    [freqAB |-> f[k], supportAB |-> Frac(f[k] * 100, n_orders)]]]

\* The same frame, from the Counter that freq has filled.
counter_frame(f, n_orders) ==
    [index_levels |-> IF DOMAIN f = {} THEN 1 ELSE 2,
     rows |-> [k \in DOMAIN f |->
                 [freqAB |-> f[k], supportAB |-> Frac(f[k] * 100, n_orders)]]]

\* Variant of tally: the count of the pair is set, not raised.
tally_set(c, item_pair) == (item_pair :> 1) @@ c

\* Counter's update for one element of the iterable: c[item_pair] += 1.
tally(c, item_pair) ==
    IF item_pair \in DOMAIN c THEN [c EXCEPT ![item_pair] = @ + 1]
    ELSE c @@ (item_pair :> 1)

\* Variant of filter_pairs: strict comparison.
filter_pairs_strict(frame, ms) ==
    [index_levels |-> frame.index_levels,
     rows |-> [k \in {k \in DOMAIN frame.rows :
                        frame.rows[k].supportAB.num
                            > ms * frame.rows[k].supportAB.den} |->
                 frame.rows[k]]]

\* Line 604: item_pairs[item_pairs['supportAB'] >= min_support]; a boolean
\* mask keeps the index as it is and drops rows.
filter_pairs(frame, ms) ==
    [index_levels |-> frame.index_levels,
     rows |-> [k \in {k \in DOMAIN frame.rows :
                        FracGeqInt(frame.rows[k].supportAB, ms)} |->
                 frame.rows[k]]]

\* Line 610: reset_index() names the columns of a two-level index level_0 and
\* level_1, which rename() turns into item_A and item_B; the column of a
\* one-level index is named index and rename() leaves it.
index_columns(frame) ==
    IF frame.index_levels = 2 THEN {"item_A", "item_B"} ELSE {"index"}

\* Variant of merge_item_stats: the second join is on item_A too.
merge_item_stats_on_A(frame, stats) ==
    {[item_A |-> k[1], item_B |-> k[2],
      freqAB |-> frame.rows[k].freqAB, supportAB |-> frame.rows[k].supportAB,
      freqA |-> stats[k[1]].freq, supportA |-> stats[k[1]].support,
      freqB |-> stats[k[1]].freq, supportB |-> stats[k[1]].support] :
        k \in {k \in DOMAIN frame.rows : k[1] \in DOMAIN stats}}

\* merge_item_stats(item_pairs, item_stats): inner join of the pair rows with
\* item_stats on item_A (freqA, supportA), then on item_B (freqB, supportB).
merge_item_stats(frame, stats) ==
    {[item_A |-> k[1], item_B |-> k[2],
      freqAB |-> frame.rows[k].freqAB, supportAB |-> frame.rows[k].supportAB,
      freqA |-> stats[k[1]].freq, supportA |-> stats[k[1]].support,
      freqB |-> stats[k[2]].freq, supportB |-> stats[k[2]].support] :
        k \in {k \in DOMAIN frame.rows :
                k[1] \in DOMAIN stats /\ k[2] \in DOMAIN stats}}

\* Line 615: lift = supportAB / (supportA * supportB)
lift_of(r) == FracDiv(r.supportAB, FracMul(r.supportA, r.supportB))

\* Lines 613-615: the three metric columns.
with_metrics(r) ==
    [item_A |-> r.item_A, item_B |-> r.item_B,
     freqAB |-> r.freqAB, supportAB |-> r.supportAB,
     freqA |-> r.freqA, supportA |-> r.supportA,
     freqB |-> r.freqB, supportB |-> r.supportB,
     confidenceAtoB |-> FracDiv(r.supportAB, r.supportA),
     confidenceBtoA |-> FracDiv(r.supportAB, r.supportB),
     lift |-> lift_of(r)]

\* Variant of sort_values_lift: ascending=True.
RECURSIVE sort_values_lift_ascending(_)
sort_values_lift_ascending(S) ==
    IF S = {} THEN <<>>
    ELSE LET bottom == {r \in S : \A q \in S : FracGeq(q.lift, r.lift)}
         IN <<bottom>> \o sort_values_lift_ascending(S \ bottom)

\* Line 619: sort_values('lift', ascending=False): the records in order of
\* falling lift.  sort_values does not fix the relative order of records of
\* equal lift, so the sorted frame is the sequence of its groups of records
\* of equal lift, the groups in the order the frame holds them.
RECURSIVE sort_values_lift(_)
sort_values_lift(S) ==
    IF S = {} THEN <<>>
    ELSE LET top == {r \in S : \A q \in S : FracGeq(r.lift, q.lift)}
         IN <<top>> \o sort_values_lift(S \ top)

EmptyFrame == [index_levels |-> 1, rows |-> <<>>]

\* Frame of a get_item_pairs generator: where it stands (state), the rows of
\* the array groupby has not read yet (unread), its locals order_id and
\* item_list, the list the comprehension of its second line has built and
\* not yet bound (building), the position in combinations(item_list, 2) (k).
\* No generator exists.
NoGenerator ==
    [state |-> "none", unread |-> <<>>, order_id |-> 0, item_list |-> <<>>,
     building |-> <<>>, k |-> 0]

\* No call of get_item_pairs by itself has been made.
NoCall == [fn |-> "none", arg |-> <<>>, out |-> <<>>]

----------------------------------------------------------------------------
Init ==
    /\ orders = <<>>
    /\ min_support = 0
    /\ pc = "load"
    /\ yielded = <<>>
    /\ pair_counts = <<>>
    /\ order_item = <<>>
    /\ item_stats = <<>>
    /\ qualifying_items = {}
    /\ order_size = <<>>
    /\ qualifying_orders = {}
    /\ counted_pairs = EmptyFrame
    /\ item_pairs = EmptyFrame
    /\ rules = <<>>
    /\ error = ""
    /\ gen = NoGenerator
    /\ counter = <<>>
    /\ call = NoCall

\* Lines 379 and 435: one more row (order_id, item_id) of the data read into
\* orders; any row, up to MaxLen rows, NumOrders order ids and NumItems item
\* ids, a new id being the next number not yet used.
LoadRow ==
    /\ pc = "load"
    /\ Len(orders) < MaxLen
    /\ \E o \in 1..Min2(NumOrders, Max(OrderIds(orders)) + 1),
          i \in 1..Min2(NumItems, Max(ItemIds(orders)) + 1) :
            orders' = Append(orders, <<o, i>>)
    /\ UNCHANGED <<gen, counter, call,
                   min_support, pc, yielded, pair_counts, order_item, item_stats,
                   qualifying_items, order_size, qualifying_orders, counted_pairs,
                   item_pairs, rules, error>>

\* Lines 379 and 435 for data that keeps the input contract (all rows of an
\* order contiguous, one row per item of an order, as in the Instacart file):
\* the row continues the last order with an item the order does not list
\* yet, or starts the next order.
LoadGroupedRow ==
    /\ pc = "load"
    /\ Len(orders) < MaxGroupedLen
    /\ \E o \in 1..Min2(NumOrders, Max(OrderIds(orders)) + 1),
          i \in 1..Min2(NumItems, Max(ItemIds(orders)) + 1) :
            /\ \/ o = Max(OrderIds(orders)) + 1
               \/ orders # <<>> /\ o = orders[Len(orders)][1]
            /\ <<o, i>> \notin Range(orders)
            /\ orders' = Append(orders, <<o, i>>)
    /\ UNCHANGED <<gen, counter, call,
                   min_support, pc, yielded, pair_counts, order_item, item_stats,
                   qualifying_items, order_size, qualifying_orders, counted_pairs,
                   item_pairs, rules, error>>

\* Counter(get_item_pairs(orders)): the generator applied to the stream as it
\* is, its pairs tallied by Counter.
CountSamplePairs ==
    /\ pc = "load"
    /\ yielded' = get_item_pairs(orders)
    /\ pair_counts' = freq(item_pair_seq(yielded'))
    /\ pc' = "call"
    /\ UNCHANGED <<gen, counter, call,
                   orders, min_support, order_item, item_stats, qualifying_items,
                   order_size, qualifying_orders, counted_pairs, item_pairs,
                   rules, error>>

\* association_rules(orders, min_support), lines 560-567: order_item and
\* min_support are bound to the arguments; item frequency and support on the
\* stream as passed.
CalcItemStats ==
    /\ pc = "call"
    /\ min_support' \in MinSupports
    /\ order_item' = orders
    /\ item_stats' = item_stats_frame(orders)
    /\ pc' = "filter_items"
    /\ UNCHANGED <<gen, counter, call,
                   orders, yielded, pair_counts, qualifying_items,
                   order_size, qualifying_orders, counted_pairs, item_pairs,
                   rules, error>>

\* Lines 570-572: filter from order_item items below min support.
FilterItems ==
    /\ pc = "filter_items"
    /\ qualifying_items' = qualifying_items_of(item_stats, min_support)
    /\ order_item' = select_items(order_item, qualifying_items')
    /\ pc' = "filter_orders"
    /\ UNCHANGED <<gen, counter, call,
                   orders, min_support, yielded, pair_counts, item_stats,
                   order_size, qualifying_orders, counted_pairs, item_pairs,
                   rules, error>>

\* Lines 578-581: filter from order_item orders with less than 2 items.
FilterOrders ==
    /\ pc = "filter_orders"
    /\ order_size' = freq(index(order_item))
    /\ qualifying_orders' = qualifying_orders_of(order_size')
    /\ order_item' = select_orders(order_item, qualifying_orders')
    /\ pc' = "recalc"
    /\ UNCHANGED <<gen, counter, call,
                   orders, min_support, yielded, pair_counts, item_stats,
                   qualifying_items, counted_pairs, item_pairs, rules, error>>

\* Lines 587-589: recalculate item frequency and support.
RecalcItemStats ==
    /\ pc = "recalc"
    /\ item_stats' = item_stats_frame(order_item)
    /\ pc' = "count_pairs"
    /\ UNCHANGED <<gen, counter, call,
                   orders, min_support, yielded, pair_counts, order_item,
                   qualifying_items, order_size, qualifying_orders,
                   counted_pairs, item_pairs, rules, error>>

\* Lines 592-598: the generator over the pruned stream, consumed by freq;
\* item pair frequency and support.
CountPairs ==
    /\ pc = "count_pairs"
    /\ yielded' = get_item_pairs(order_item)
    /\ item_pairs' = item_pairs_frame(yielded', Cardinality(qualifying_orders))
    /\ counted_pairs' = item_pairs'
    /\ pc' = "filter_pairs"
    /\ UNCHANGED <<gen, counter, call,
                   orders, min_support, pair_counts, order_item, item_stats,
                   qualifying_items, order_size, qualifying_orders, rules, error>>

\* Lines 603-604: filter from item_pairs those below min support.
FilterPairs ==
    /\ pc = "filter_pairs"
    /\ item_pairs' = filter_pairs(item_pairs, min_support)
    /\ pc' = "rules"
    /\ UNCHANGED <<gen, counter, call,
                   orders, min_support, yielded, pair_counts, order_item,
                   item_stats, qualifying_items, order_size, qualifying_orders,
                   counted_pairs, rules, error>>

\* Lines 609-619: the table of rules with its metrics, sorted by lift and
\* returned.
ReturnRules ==
    /\ pc = "rules"
    /\ "item_A" \in index_columns(item_pairs)
    /\ rules' = sort_values_lift(
            {with_metrics(r) : r \in merge_item_stats(item_pairs, item_stats)})
    /\ pc' = "done"
    /\ UNCHANGED <<gen, counter, call,
                   orders, min_support, yielded, pair_counts, order_item,
                   item_stats, qualifying_items, order_size, qualifying_orders,
                   counted_pairs, item_pairs, error>>

\* Lines 610-611 and 527: merge(left_on='item_A') on a frame that has no
\* column item_A raises KeyError out of association_rules.
RaiseKeyError ==
    /\ pc = "rules"
    /\ "item_A" \notin index_columns(item_pairs)
    /\ error' = "KeyError"
    /\ pc' = "raised"
    /\ UNCHANGED <<gen, counter, call,
                   orders, min_support, yielded, pair_counts, order_item,
                   item_stats, qualifying_items, order_size, qualifying_orders,
                   counted_pairs, item_pairs, rules>>

\* The cells after the data is loaded.
Cells ==
    \/ CountSamplePairs
    \/ CalcItemStats
    \/ FilterItems
    \/ FilterOrders
    \/ RecalcItemStats
    \/ CountPairs
    \/ FilterPairs
    \/ ReturnRules
    \/ RaiseKeyError

Next == LoadRow \/ Cells

Spec == Init /\ [][Next]_vars

\* The same notebook on data that keeps the input contract.
NextGrouped == LoadGroupedRow \/ Cells

SpecGrouped == Init /\ [][NextGrouped]_vars

----------------------------------------------------------------------------
\* Lines 592-598 step by step: the generator of lines 515-521 and the Counter
\* of freq that consumes it.

\* The pairs of combinations(item_list, 2) of the generator's item_list.
GenPairs == combinations(gen.item_list)

\* The generator stands at the head of its for loop over groupby: it has not
\* run yet, or the loop over the pairs of the last group has ended.
AtGroupLoop ==
    \/ gen.state = "unstarted"
    \/ gen.state = "pairs" /\ gen.k > Len(GenPairs)

\* Line 593: get_item_pairs(order_item) creates the generator; its body does
\* not run before the first element is asked for.
CreateGenerator ==
    /\ pc = "count_pairs"
    /\ gen' = [NoGenerator EXCEPT !.state = "unstarted", !.unread = order_item]
    /\ counter' = <<>>
    /\ yielded' = <<>>
    /\ pc' = "counting"
    /\ UNCHANGED <<orders, min_support, pair_counts, order_item, item_stats,
                   qualifying_items, order_size, qualifying_orders,
                   counted_pairs, item_pairs, rules, error, call>>

\* Lines 517-518: groupby gives the next run of rows, its key is bound to
\* order_id, and the comprehension builds the list of the items of the run;
\* item_list still names the list of the run before.
GenCollect ==
    /\ pc = "counting"
    /\ AtGroupLoop
    /\ gen.unread # <<>>
    /\ LET g == groupby(gen.unread)[1]
       IN gen' = [gen EXCEPT
                    !.state = "collected",
                    !.order_id = g.order_id,
                    !.building = values(g.order_object),
                    !.unread = SubSeq(gen.unread, Len(g.order_object) + 1,
                                      Len(gen.unread))]
    /\ UNCHANGED <<orders, min_support, pc, yielded, pair_counts, order_item,
                   item_stats, qualifying_items, order_size, qualifying_orders,
                   counted_pairs, item_pairs, rules, error, counter, call>>

\* Line 518: the list built is bound to item_list, which releases the list
\* of the run before; line 520 starts the loop over its pairs.
GenBind ==
    /\ pc = "counting"
    /\ gen.state = "collected"
    /\ gen' = [gen EXCEPT !.state = "pairs", !.item_list = gen.building,
                          !.building = <<>>, !.k = 1]
    /\ UNCHANGED <<orders, min_support, pc, yielded, pair_counts, order_item,
                   item_stats, qualifying_items, order_size, qualifying_orders,
                   counted_pairs, item_pairs, rules, error, counter, call>>

\* Lines 520-521: the next pair of combinations(item_list, 2) is yielded and
\* the generator is suspended.
GenYield ==
    /\ pc = "counting"
    /\ gen.state = "pairs"
    /\ gen.k <= Len(GenPairs)
    /\ yielded' = Append(yielded, [order_id |-> gen.order_id,
                                   item_pair |-> GenPairs[gen.k]])
    /\ gen' = [gen EXCEPT !.state = "yield"]
    /\ UNCHANGED <<orders, min_support, pc, pair_counts, order_item,
                   item_stats, qualifying_items, order_size, qualifying_orders,
                   counted_pairs, item_pairs, rules, error, counter, call>>

\* Line 506, Counter(iterable): the pair received is tallied and the next
\* one asked for, which resumes the generator.
CounterTally ==
    /\ pc = "counting"
    /\ gen.state = "yield"
    /\ counter' = tally(counter, yielded[Len(yielded)].item_pair)
    /\ gen' = [gen EXCEPT !.state = "pairs", !.k = gen.k + 1]
    /\ UNCHANGED <<orders, min_support, pc, yielded, pair_counts, order_item,
                   item_stats, qualifying_items, order_size, qualifying_orders,
                   counted_pairs, item_pairs, rules, error, call>>

\* Line 517: groupby has no more rows; the generator returns and its locals
\* are released.
GenStop ==
    /\ pc = "counting"
    /\ AtGroupLoop
    /\ gen.unread = <<>>
    /\ gen' = [NoGenerator EXCEPT !.state = "done"]
    /\ UNCHANGED <<orders, min_support, pc, yielded, pair_counts, order_item,
                   item_stats, qualifying_items, order_size, qualifying_orders,
                   counted_pairs, item_pairs, rules, error, counter, call>>

\* Lines 597-598: the Counter is complete; item pair frequency and support.
FinishCount ==
    /\ pc = "counting"
    /\ gen.state = "done"
    /\ item_pairs' = counter_frame(counter, Cardinality(qualifying_orders))
    /\ counted_pairs' = item_pairs'
    /\ pc' = "filter_pairs"
    /\ UNCHANGED <<orders, min_support, yielded, pair_counts, order_item,
                   item_stats, qualifying_items, order_size, qualifying_orders,
                   rules, error, gen, counter, call>>

\* The notebook with lines 592-598 taken step by step, on data that keeps
\* the input contract.
NextGen ==
    \/ LoadGroupedRow
    \/ CountSamplePairs
    \/ CalcItemStats
    \/ FilterItems
    \/ FilterOrders
    \/ RecalcItemStats
    \/ CreateGenerator
    \/ GenCollect
    \/ GenBind
    \/ GenYield
    \/ CounterTally
    \/ GenStop
    \/ FinishCount
    \/ FilterPairs
    \/ ReturnRules
    \/ RaiseKeyError

SpecGen == Init /\ [][NextGen]_vars

----------------------------------------------------------------------------
\* get_item_pairs called by itself, on the stream the notebook holds or on
\* another one.

\* Streams to pass: the stream the notebook holds, its beginnings and its
\* ends.
CallArgs ==
    {SubSeq(orders, 1, n) : n \in 0..Len(orders)}
        \cup {SubSeq(orders, n, Len(orders)) : n \in 1..Len(orders)}

\* list(get_item_pairs(arg)) with the definition of the sample cell, lines
\* 64-72.
CallSampleGetItemPairs ==
    /\ pc = "load"
    /\ \E arg \in CallArgs :
            call' = [fn |-> "sample", arg |-> arg,
                     out |-> item_pair_seq(sample_get_item_pairs(arg))]
    /\ pc' = "called"
    /\ UNCHANGED <<orders, min_support, yielded, pair_counts, order_item,
                   item_stats, qualifying_items, order_size, qualifying_orders,
                   counted_pairs, item_pairs, rules, error, gen, counter>>

\* list(get_item_pairs(arg)) with the definition of the helper cell, lines
\* 515-521.
CallGetItemPairs ==
    /\ pc = "load"
    /\ \E arg \in CallArgs :
            call' = [fn |-> "helper", arg |-> arg,
                     out |-> item_pair_seq(get_item_pairs(arg))]
    /\ pc' = "called"
    /\ UNCHANGED <<orders, min_support, yielded, pair_counts, order_item,
                   item_stats, qualifying_items, order_size, qualifying_orders,
                   counted_pairs, item_pairs, rules, error, gen, counter>>

NextCalls == LoadRow \/ CallSampleGetItemPairs \/ CallGetItemPairs

SpecCalls == Init /\ [][NextCalls]_vars

----------------------------------------------------------------------------
\* Vocabulary of the properties, stated on the streams themselves.

\* The positions of the rows of order o in stream s, and the items they list.
RowsOf(s, o) == {k \in DOMAIN s : s[k][1] = o}

ItemsOf(s, o) == {s[k][2] : k \in RowsOf(s, o)}

\* All rows of every order are contiguous.
Grouped(s) ==
    \A i, j, k \in DOMAIN s : (i < k /\ k < j /\ s[i][1] = s[j][1]) => s[k][1] = s[i][1]

\* Order o lists no item twice.
NoRepeat(s, o) == Cardinality(ItemsOf(s, o)) = Cardinality(RowsOf(s, o))

\* The input contract of the stream: grouped, one row per item of an order.
WellFormed(s) == Grouped(s) /\ \A o \in OrderIds(s) : NoRepeat(s, o)

\* The orders of s that contain both items a and b.
OrdersWithBoth(s, a, b) ==
    {o \in OrderIds(s) : a \in ItemsOf(s, o) /\ b \in ItemsOf(s, o)}

\* The stream the last get_item_pairs generator was given.
GenRan == pc # "load"

GenInput ==
    IF pc \in {"filter_pairs", "rules", "done", "raised"} THEN order_item ELSE orders

\* The records of the returned frame.
RuleRecords == UNION Range(rules)

\* The sample data of the notebook: apple = 1, egg = 2, milk = 3.
SampleOrders == <<<<1, 1>>, <<1, 2>>, <<1, 3>>, <<2, 2>>, <<2, 3>>>>

----------------------------------------------------------------------------
\* C1: for every order of a grouped stream given to get_item_pairs that lists
\* n distinct items, the generator yields exactly n*(n-1)/2 pairs for that
\* order, one for each unordered 2-combination of its items; an order of one
\* item yields no pair.
C1_PairsPerOrder ==
    (GenRan /\ Grouped(GenInput)) =>
        \A o \in OrderIds(GenInput) :
            NoRepeat(GenInput, o) =>
                LET items == ItemsOf(GenInput, o)
                    n == Cardinality(items)
                    ys == {k \in DOMAIN yielded : yielded[k].order_id = o}
                IN /\ Cardinality(ys) * 2 = n * (n - 1)
                   /\ \A a, b \in items :
                        a # b =>
                            Cardinality({k \in ys :
                                {yielded[k].item_pair[1], yielded[k].item_pair[2]}
                                    = {a, b}}) = 1

\* An order of three distinct items and an order of a single item have been
\* through the generator.
C1_Witness ==
    /\ pc = "call"
    /\ WellFormed(orders)
    /\ \E o1, o2 \in OrderIds(orders) :
        /\ NoRepeat(orders, o1) /\ Cardinality(RowsOf(orders, o1)) = 3
        /\ Cardinality(RowsOf(orders, o2)) = 1
        /\ Cardinality({k \in DOMAIN yielded : yielded[k].order_id = o1}) = 3
        /\ Cardinality({k \in DOMAIN yielded : yielded[k].order_id = o2}) = 0

\* C2: the pair counts built from the generator never hold both (A,B) and
\* (B,A) as keys, however the items are listed inside each order (stated for
\* streams that keep the input contract).
C2_OneKeyPerPair ==
    (GenRan /\ WellFormed(orders)) =>
        /\ \A k \in DOMAIN pair_counts :
                k[1] # k[2] => <<k[2], k[1]>> \notin DOMAIN pair_counts
        /\ \A k \in DOMAIN counted_pairs.rows :
                k[1] # k[2] => <<k[2], k[1]>> \notin DOMAIN counted_pairs.rows

\* C3: the count the pair counts hold for an item pair is the number of orders
\* of the stream that contain both items, and every pair of items that share
\* an order is counted (stated for streams that keep the input contract).
C3_CountIsCoOccurrence ==
    (GenRan /\ WellFormed(orders)) =>
        /\ \A k \in DOMAIN pair_counts :
                pair_counts[k] = Cardinality(OrdersWithBoth(orders, k[1], k[2]))
        /\ \A a, b \in ItemIds(orders) :
                (a # b /\ OrdersWithBoth(orders, a, b) # {}) =>
                    (<<a, b>> \in DOMAIN pair_counts \/ <<b, a>> \in DOMAIN pair_counts)

\* The pair counts of the sample orders are as the notebook records them.
SampleCounts ==
    (GenRan /\ orders = SampleOrders) =>
        pair_counts = (<<1, 2>> :> 1) @@ (<<1, 3>> :> 1) @@ (<<2, 3>> :> 2)

\* C4: the lift of a rule is 1.0 exactly when freqAB * N = freqA * freqB, N
\* the number of qualifying orders; for the sample orders with min_support 0
\* the rule of (egg, milk) has supportAB = supportA = supportB = 100 and
\* lift 1.0.
C4_LiftOneIsIndependence ==
    pc = "done" =>
        /\ \A r \in RuleRecords :
                FracEq(r.lift, Frac(1, 1))
                    <=> (r.freqAB * Cardinality(qualifying_orders) = r.freqA * r.freqB)
        /\ (orders = SampleOrders /\ min_support = 0) =>
                \E r \in RuleRecords :
                    /\ r.item_A = 2 /\ r.item_B = 3
                    /\ FracEq(r.supportAB, Frac(100, 1))
                    /\ FracEq(r.supportA, Frac(100, 1))
                    /\ FracEq(r.supportB, Frac(100, 1))
                    /\ FracEq(r.lift, Frac(1, 1))

\* C5: a rule listing two items as (A, B) and a rule listing them as (B, A)
\* carry the same lift.
C5_LiftDirectionFree ==
    pc = "done" =>
        \A r, q \in RuleRecords :
            (r.item_A = q.item_B /\ r.item_B = q.item_A) => FracEq(r.lift, q.lift)

\* The number of orders left in the stream once the order-size filter has run.
QualifyingOrderCount == Cardinality(OrderIds(order_item))

\* C6: Stage B gives every counted pair supportAB = freqAB / (number of orders
\* that survived the order-size filter) * 100, and keeps a pair exactly when
\* supportAB >= min_support, the pair whose supportAB equals min_support
\* included; the rows kept are unchanged.
C6_StageB ==
    pc \in {"rules", "done", "raised"} =>
        /\ DOMAIN item_pairs.rows \subseteq DOMAIN counted_pairs.rows
        /\ \A k \in DOMAIN counted_pairs.rows :
            LET row == counted_pairs.rows[k]
            IN /\ QualifyingOrderCount > 0
               /\ row.supportAB.den > 0
               /\ FracEq(row.supportAB, Frac(row.freqAB * 100, QualifyingOrderCount))
               /\ (k \in DOMAIN item_pairs.rows
                     <=> row.freqAB * 100 >= min_support * QualifyingOrderCount)
               /\ (k \in DOMAIN item_pairs.rows => item_pairs.rows[k] = row)

\* A pair whose supportAB equals a positive min_support has been kept, with
\* fewer qualifying orders than orders in the stream passed in.
C6_Witness ==
    /\ pc = "rules"
    /\ WellFormed(orders)
    /\ min_support > 0
    /\ QualifyingOrderCount < Cardinality(OrderIds(orders))
    /\ \E k \in DOMAIN item_pairs.rows :
            item_pairs.rows[k].freqAB * 100 = min_support * QualifyingOrderCount

\* The number of rows of the stream passed in that list item i.
RawFreq(i) == Cardinality({k \in DOMAIN orders : orders[k][2] = i})

\* Item i has raw support >= min_support.
RawQualifies(i) ==
    RawFreq(i) * 100 >= min_support * Cardinality(OrderIds(orders))

\* C7: after Stage A the stream holds exactly the rows, unchanged and in their
\* order, of the items whose raw support (raw frequency / number of distinct
\* order ids of the raw stream * 100) is >= min_support.
C7_StageA ==
    pc = "filter_orders" =>
        /\ order_item = SelectSeq(orders, LAMBDA row : RawQualifies(row[2]))
        /\ qualifying_items = {i \in ItemIds(orders) : RawQualifies(i)}

\* Stage A has kept an item whose raw support equals a positive min_support
\* and removed the rows of another item.
C7_Witness ==
    /\ pc = "filter_orders"
    /\ WellFormed(orders)
    /\ min_support > 0
    /\ \E i \in ItemIds(order_item) :
            RawFreq(i) * 100 = min_support * Cardinality(OrderIds(orders))
    /\ ItemIds(order_item) # ItemIds(orders)

\* The stream as Stage A leaves it.
AfterItemPruning == SelectSeq(orders, LAMBDA row : row[2] \in qualifying_items)

\* C8: after the order-size filter the stream holds exactly the rows of the
\* orders that have at least 2 rows left after item pruning; an order left
\* with one row or none is gone, and no row of another order is removed.
C8_StageA5 ==
    pc = "recalc" =>
        /\ order_item =
            SelectSeq(AfterItemPruning,
                      LAMBDA row : Cardinality(RowsOf(AfterItemPruning, row[1])) >= 2)
        /\ \A o \in OrderIds(orders) :
                Cardinality(RowsOf(AfterItemPruning, o)) <= 1 => RowsOf(order_item, o) = {}

\* The filter has removed an order that item pruning left with exactly one
\* of its rows, and has kept another order.
C8_Witness ==
    /\ pc = "recalc"
    /\ WellFormed(orders)
    /\ order_item # <<>>
    /\ \E o \in OrderIds(orders) :
        /\ Cardinality(RowsOf(orders, o)) >= 2
        /\ Cardinality(RowsOf(AfterItemPruning, o)) = 1
        /\ RowsOf(order_item, o) = {}

\* Some stage of association_rules had an empty result.
EmptyStage ==
    \/ orders = <<>>
    \/ qualifying_items = {}
    \/ qualifying_orders = {}
    \/ DOMAIN counted_pairs.rows = {}
    \/ DOMAIN item_pairs.rows = {}

\* C9: when the input stream is empty, or no item, no order or no pair
\* qualifies, association_rules raises nothing and returns an empty rule set.
C9_EmptyIsNoError ==
    (pc \in {"done", "raised"} /\ EmptyStage) => (error = "" /\ rules = <<>>)

\* C10: for every rule returned, confidenceAtoB and confidenceBtoA lie in the
\* range 0 to 1 (freqAB <= freqA and freqAB <= freqB).
C10_ConfidenceRange ==
    pc = "done" =>
        \A r \in RuleRecords :
            /\ FracGeq(r.confidenceAtoB, Frac(0, 1))
            /\ FracGeq(Frac(1, 1), r.confidenceAtoB)
            /\ FracGeq(r.confidenceBtoA, Frac(0, 1))
            /\ FracGeq(Frac(1, 1), r.confidenceBtoA)
            /\ r.freqAB <= r.freqA
            /\ r.freqAB <= r.freqB

\* The stages of association_rules that follow the recalculation of item_stats.
AfterRecalc == pc \in {"count_pairs", "filter_pairs", "rules", "done", "raised"}

\* The orders of the pruned stream that list item i.
OrdersListing(i) == {o \in OrderIds(order_item) : i \in ItemsOf(order_item, o)}

\* C11: the support recalculated for an item is the number of qualifying
\* orders that contain the item, over the number of qualifying orders, times
\* 100, and so is never above 100, whatever the stream passed in.
C11_SupportIsOrderShare ==
    AfterRecalc =>
        \A i \in DOMAIN item_stats :
            /\ FracEq(item_stats[i].support,
                      Frac(Cardinality(OrdersListing(i)) * 100, QualifyingOrderCount))
            /\ FracGeq(Frac(100, 1), item_stats[i].support)

\* C12: no metric divides by zero: both members of every pair that survives
\* Stage B are among the items that passed Stage A and are rows of the
\* recalculated item_stats, each with a support strictly above 0; so the
\* divisors supportA, supportB and supportA * supportB of every rule are
\* above 0.
C12_NoZeroDivisor ==
    /\ pc \in {"rules", "done", "raised"} =>
        \A k \in DOMAIN item_pairs.rows :
            \A m \in {k[1], k[2]} :
                /\ m \in qualifying_items
                /\ m \in DOMAIN item_stats
                /\ item_stats[m].support.den > 0
                /\ item_stats[m].support.num > 0
    /\ pc = "done" =>
        \A r \in RuleRecords :
            /\ r.supportA.num > 0 /\ r.supportA.den > 0
            /\ r.supportB.num > 0 /\ r.supportB.den > 0
            /\ r.confidenceAtoB.den > 0
            /\ r.confidenceBtoA.den > 0
            /\ r.lift.den > 0

\* Rules have been computed from a stream that lost the rows of an item to
\* Stage A and an order to the order-size filter.
C12_Witness ==
    /\ pc = "done"
    /\ WellFormed(orders)
    /\ RuleRecords # {}
    /\ qualifying_items # ItemIds(orders)
    /\ QualifyingOrderCount < Cardinality(OrderIds(orders))

\* The sum of the freq column of an item_stats frame.
RECURSIVE SumFreq(_, _)
SumFreq(stats, items) ==
    IF items = {} THEN 0
    ELSE LET i == CHOOSE x \in items : TRUE
         IN stats[i].freq + SumFreq(stats, items \ {i})

\* C13: the freq values of the recalculated item_stats, summed over all its
\* items, give the number of rows left in the stream after the order-size
\* filter.
C13_FreqSumIsRowCount ==
    AfterRecalc => SumFreq(item_stats, DOMAIN item_stats) = Len(order_item)

\* item_stats has been recalculated on a stream of several items that lost
\* rows to the filters and in which an order lists an item twice.
C13_Witness ==
    /\ pc = "count_pairs"
    /\ Cardinality(DOMAIN item_stats) >= 2
    /\ Len(order_item) < Len(orders)
    /\ \E o \in OrderIds(order_item) : ~NoRepeat(order_item, o)

\* C14: the records returned are in order of falling lift: of two records,
\* the earlier has a lift >= that of the later (records of one group of the
\* frame have the same lift and may come in either order).
C14_SortedByLift ==
    pc = "done" =>
        /\ \A g \in DOMAIN rules :
                \A r, q \in rules[g] : FracEq(r.lift, q.lift)
        /\ \A g, h \in DOMAIN rules :
                g < h =>
                    \A r \in rules[g], q \in rules[h] :
                        FracGeq(r.lift, q.lift) /\ ~FracEq(r.lift, q.lift)
        /\ RuleRecords =
                {with_metrics(r) : r \in merge_item_stats(item_pairs, item_stats)}

\* Rules of three different lifts have been returned.
C14_Witness ==
    /\ pc = "done"
    /\ Len(rules) >= 3

\* C19: the divisor of supportAB, len(qualifying_orders), and the divisor of
\* the recalculated item support, order_count of the pruned stream, are the
\* same number, for every stream and every min_support: the qualifying order
\* ids are exactly the order ids of the pruned stream.
C19_SameDenominator ==
    /\ pc \in {"recalc", "count_pairs", "filter_pairs", "rules", "done", "raised"} =>
        /\ Cardinality(qualifying_orders) = order_count(order_item)
        /\ qualifying_orders = OrderIds(order_item)
    /\ pc \in {"filter_pairs", "rules", "done", "raised"} =>
        /\ \A i \in DOMAIN item_stats :
                FracEq(item_stats[i].support,
                       Frac(item_stats[i].freq * 100, Cardinality(qualifying_orders)))
        /\ \A k \in DOMAIN counted_pairs.rows :
                FracEq(counted_pairs.rows[k].supportAB,
                       Frac(counted_pairs.rows[k].freqAB * 100, order_count(order_item)))

\* Both supports have been computed after the order-size filter removed
\* some order and kept several.
C19_Witness ==
    /\ pc = "filter_pairs"
    /\ DOMAIN counted_pairs.rows # {}
    /\ Cardinality(qualifying_orders) >= 2
    /\ Cardinality(qualifying_orders) < Cardinality(OrderIds(orders))

\* C20: the two filters preserve grouping: if all rows of every order are
\* contiguous in the stream passed in, the stream handed to get_item_pairs
\* holds the rows kept in their relative order, and all rows of every order
\* are still contiguous in it.
C20_PruningKeepsGrouping ==
    (AfterRecalc /\ Grouped(orders)) =>
        /\ order_item =
            SelectSeq(orders, LAMBDA row : /\ row[2] \in qualifying_items
                                           /\ row[1] \in qualifying_orders)
        /\ Grouped(order_item)

\* A grouped stream has lost the rows of an item from inside an order, and an
\* order from between two orders that are kept.
C20_Witness ==
    /\ pc = "count_pairs"
    /\ WellFormed(orders)
    /\ Cardinality(OrderIds(order_item)) >= 2
    /\ qualifying_items # ItemIds(orders)
    /\ \E i, j, k \in DOMAIN orders :
        /\ i < k /\ k < j
        /\ orders[i][1] \in qualifying_orders
        /\ orders[j][1] \in qualifying_orders
        /\ orders[k][1] \notin qualifying_orders

\* Positions p < q of stream s lie in one run of rows of the same order.
SameRun(s, p, q) == \A k \in p..q : s[k][1] = s[p][1]

\* The number of position pairs of stream s that lie in one run.
RunPairs(s) ==
    Cardinality({pq \in (DOMAIN s) \X (DOMAIN s) :
                    pq[1] < pq[2] /\ SameRun(s, pq[1], pq[2])})

\* C18: a stream in which the rows of some order form several separate runs is
\* not rejected: association_rules raises no error; get_item_pairs treats
\* every run as a group of its own, so that the pairs it yields are those of
\* two rows of one run and no pair has its members in different runs of an
\* order; order_count and the order-size filter count the order once, over
\* all its rows.
C18_UngroupedAccepted ==
    (pc \in {"done", "raised"} /\ ~Grouped(orders)) =>
        /\ error = ""
        /\ Len(yielded) = RunPairs(order_item)
        /\ DOMAIN order_size = OrderIds(AfterItemPruning)
        /\ \A o \in DOMAIN order_size :
                order_size[o] = Cardinality(RowsOf(AfterItemPruning, o))
        /\ Cardinality(qualifying_orders) = Cardinality(OrderIds(order_item))

\* C18 without its first clause: what the generator, order_count and the
\* order-size filter do with an ungrouped stream.
UngroupedRunsAndCounts ==
    (pc \in {"filter_pairs", "rules", "done", "raised"} /\ ~Grouped(orders)) =>
        /\ Len(yielded) = RunPairs(order_item)
        /\ \A k \in DOMAIN yielded :
                \E p, q \in DOMAIN order_item :
                    /\ p < q /\ SameRun(order_item, p, q)
                    /\ order_item[p][1] = yielded[k].order_id
                    /\ yielded[k].item_pair = <<order_item[p][2], order_item[q][2]>>
        /\ DOMAIN order_size = OrderIds(AfterItemPruning)
        /\ \A o \in DOMAIN order_size :
                order_size[o] = Cardinality(RowsOf(AfterItemPruning, o))
        /\ Cardinality(qualifying_orders) = Cardinality(OrderIds(order_item))

\* The sum of the tallies of a Counter.
RECURSIVE SumCounts(_, _)
SumCounts(c, keys) ==
    IF keys = {} THEN 0
    ELSE LET k == CHOOSE x \in keys : TRUE
         IN c[k] + SumCounts(c, keys \ {k})

\* The generator has started and has not returned.
GenRunning == gen.state \in {"collected", "pairs", "yield"}

\* C15 as stated: the stages run strictly one after another, each with its
\* complete output produced before the next begins; in particular pair
\* counting begins when pair generation has ended, so the Counter holds a
\* tally only when the generator has returned.
C15_StagesNotInterleaved ==
    counter # <<>> => gen.state = "done"

\* C15, amended: the stages run one after another but for pair generation and
\* pair counting, which are interleaved pair by pair inside the one statement
\* of line 597: the generator runs only there, every pair yielded is tallied
\* before the next is produced, the Counter holds exactly the pairs yielded
\* so far, and the frame the next stage receives is the count of all pairs of
\* the pruned stream.
C15_PairsCountedAsGenerated ==
    /\ GenRunning => pc = "counting"
    /\ pc = "counting" =>
        LET tallied == SumCounts(counter, DOMAIN counter)
        IN /\ Len(yielded) = tallied + (IF gen.state = "yield" THEN 1 ELSE 0)
           /\ counter = freq(item_pair_seq(SubSeq(yielded, 1, tallied)))
           /\ \E n \in 0..Len(get_item_pairs(order_item)) :
                yielded = SubSeq(get_item_pairs(order_item), 1, n)
    /\ pc \in {"filter_pairs", "rules", "done", "raised"} =>
        /\ gen.state = "done"
        /\ yielded = get_item_pairs(order_item)
        /\ counter = freq(item_pair_seq(yielded))
        /\ counted_pairs = item_pairs_frame(yielded, Cardinality(qualifying_orders))

\* The Counter is handed a pair it has tallied before, while the generator
\* still has rows to read.
C15_Witness ==
    /\ pc = "counting"
    /\ gen.state = "yield"
    /\ gen.unread # <<>>
    /\ yielded[Len(yielded)].item_pair \in DOMAIN counter

\* The rows of the pruned stream that the generator's groupby has read.
GenRead == SubSeq(order_item, 1, Len(order_item) - Len(gen.unread))

\* List l holds the items of the last n rows read, which are rows of the one
\* order o, and the items of no other row.
ListOfLastRun(l, o) ==
    LET first == Len(GenRead) - Len(l) + 1
    IN /\ l # <<>>
       /\ first >= 1
       /\ l = values(SubSeq(GenRead, first, Len(GenRead)))
       /\ \A k \in first..Len(GenRead) : GenRead[k][1] = o

\* C16: at every point while get_item_pairs is producing pairs, the items it
\* holds buffered belong to a single order: it never holds the item lists of
\* two orders at once, the list of the order before being released before
\* the items of the next order are collected.
C16_OneOrderBuffered ==
    GenRunning =>
        /\ ~(gen.item_list # <<>> /\ gen.building # <<>>)
        /\ gen.item_list # <<>> => ListOfLastRun(gen.item_list, gen.order_id)
        /\ gen.building # <<>> => ListOfLastRun(gen.building, gen.order_id)

\* The rows read before the run the comprehension of line 518 has collected.
ReadBefore == SubSeq(GenRead, 1, Len(GenRead) - Len(gen.building))

\* What holds of the buffer: at every yield, and between the yields of one
\* order, item_list is the one list held and holds the items of the run of
\* the order being processed; a second list is held from the comprehension
\* of line 518 to the binding of its result, item_list being then the list
\* of the run before.
OneRunAtYield ==
    /\ gen.state \in {"pairs", "yield"} =>
        /\ gen.building = <<>>
        /\ ListOfLastRun(gen.item_list, gen.order_id)
    /\ gen.state = "collected" =>
        /\ ListOfLastRun(gen.building, gen.order_id)
        /\ gen.item_list =
            IF ReadBefore = <<>> THEN <<>>
            ELSE values(groupby(ReadBefore)[Len(groupby(ReadBefore))].order_object)

\* The item pairs of the position pairs P of stream s, in the order of the
\* positions.
RECURSIVE PairsAt(_, _)
PairsAt(s, P) ==
    IF P = {} THEN <<>>
    ELSE LET m == CHOOSE x \in P :
                    \A y \in P : x[1] < y[1] \/ (x[1] = y[1] /\ x[2] <= y[2])
         IN <<<<s[m[1]][2], s[m[2]][2]>>>> \o PairsAt(s, P \ {m})

\* The pairs of stream s: those of two rows of one run, run after run.
PairsOfStream(s) ==
    PairsAt(s, {pq \in (DOMAIN s) \X (DOMAIN s) :
                    pq[1] < pq[2] /\ SameRun(s, pq[1], pq[2])})

\* C17: the sequence of pairs get_item_pairs produces is determined by the
\* stream passed as its argument alone: called on a stream, either
\* definition of get_item_pairs produces the pairs of that stream, whatever
\* else the notebook holds; two calls on the same stream give the same
\* sequence and calls on two streams give the pairs of each.
C17_ArgumentAlone ==
    call.fn # "none" => call.out = PairsOfStream(call.arg)

\* The helper cell's definition produces the pairs of its argument.
HelperArgumentAlone ==
    call.fn = "helper" => call.out = PairsOfStream(call.arg)

\* The records returned for pair key k.
RecordsOf(k) == {r \in RuleRecords : r.item_A = k[1] /\ r.item_B = k[2]}

\* C21: the join of the pair statistics with the item statistics neither
\* loses nor duplicates a rule: the records association_rules returns are
\* exactly one for each pair key that survived Stage B, each with the
\* freqAB and supportAB of its key and the freq and support that the
\* recalculated item_stats holds for its own item_A and its own item_B.
C21_JoinKeepsRules ==
    pc = "done" =>
        /\ \A k \in DOMAIN item_pairs.rows : Cardinality(RecordsOf(k)) = 1
        /\ Cardinality(RuleRecords) = Cardinality(DOMAIN item_pairs.rows)
        /\ \A r \in RuleRecords :
            LET k == <<r.item_A, r.item_B>>
            IN /\ k \in DOMAIN item_pairs.rows
               /\ r.freqAB = item_pairs.rows[k].freqAB
               /\ r.supportAB = item_pairs.rows[k].supportAB
               /\ r.item_A \in DOMAIN item_stats
               /\ r.item_B \in DOMAIN item_stats
               /\ r.freqA = item_stats[r.item_A].freq
               /\ r.supportA = item_stats[r.item_A].support
               /\ r.freqB = item_stats[r.item_B].freq
               /\ r.supportB = item_stats[r.item_B].support

\* Several rules have been returned, one of them for an item whose
\* recalculated frequency is not its frequency in the stream passed in.
C21_Witness ==
    /\ pc = "done"
    /\ WellFormed(orders)
    /\ Cardinality(RuleRecords) >= 2
    /\ \E r \in RuleRecords : r.freqA # RawFreq(r.item_A)

====
